---- MODULE Spec2Model ----
(***************************************************************************)
(* A model of tasks.py, the invoke task file of vsc-odoo: the loading of   *)
(* config.yaml, the aggregation of the repository paths, the generation    *)
(* of pyrightconfig.json and .vscode/settings.json, the bootstrap tasks    *)
(* and the composite install task.                                         *)
(*                                                                         *)
(* Python values are tagged records, a dict is a sequence of <<key,value>> *)
(* pairs in insertion order, a file is its text (layout plus JSON syntax)  *)
(* and the result of a call is a record carrying the value returned, the   *)
(* exception raised ("none" when the call returns), the lines logged and   *)
(* the number of times config.yaml was opened.                             *)
(***************************************************************************)
EXTENDS Integers, Sequences, FiniteSets, TLC

VARIABLES
    configFile,     \* config.yaml at PROJECT_ROOT
    settingsFile,   \* .vscode/settings.json
    pyrightFile,    \* pyrightconfig.json
    vscodeDir,      \* whether the directory .vscode exists
    queue,          \* the tasks the running invocation still has to execute
    executed,       \* the tasks the running (or last) invocation has executed so far
    failures,       \* how many of them logged an error
    settingsRuns,   \* how often the body of settings has run so far
    log,            \* the lines logged by the task body that ran most recently
    reads,          \* how often that task body opened config.yaml
    crashed,        \* an exception left a task body and ended the invocation
    pc,             \* concurrent runs of settings: the position of each in settings()
    settingsDict,   \* concurrent runs of settings: the local settings of each
    cur,            \* concurrent runs of settings: the local current_settings of each
    plog,           \* concurrent runs of settings: the lines each logged
    clobbered       \* the text each run found when it opened settings.json for writing

seqVars == <<pyrightFile, vscodeDir, queue, executed, failures, settingsRuns, log, reads,
            crashed>>
concVars == <<pc, settingsDict, cur, plog, clobbered>>
vars == <<configFile, settingsFile, pyrightFile, vscodeDir, queue, executed, failures,
          settingsRuns, log, reads, crashed, pc, settingsDict, cur, plog, clobbered>>

(***************************************************************************)
(* Bounds of the model.                                                    *)
(***************************************************************************)
MaxRepos == 2       \* entries of the repos mapping of config.yaml
MaxMembers == 2     \* top-level members of a pre-existing settings.json
MaxSettingsRuns == 2 \* runs of the settings task in one behaviour

(***************************************************************************)
(* Python values.                                                          *)
(***************************************************************************)
None == [t |-> "none"]
Str(s) == [t |-> "str", v |-> s]
Num(n) == [t |-> "int", v |-> n]
Bool(b) == [t |-> "bool", v |-> b]
List(l) == [t |-> "list", v |-> l]      \* l: a sequence of strings
Dict(m) == [t |-> "dict", v |-> m]      \* m: <<key, value>> pairs, keys distinct

\* F applied to the value of v, with v evaluated once
With(v, F(_)) == CHOOSE y \in {F(x) : x \in {v}} : TRUE

Range(s) == {s[i] : i \in DOMAIN s}
Keys(m) == {m[i][1] : i \in DOMAIN m}
HasKey(m, k) == \E i \in DOMAIN m : m[i][1] = k
ValueOf(m, k) == m[CHOOSE i \in DOMAIN m : m[i][1] = k][2]

RECURSIVE Join(_, _)
Join(strs, sep) ==
    IF strs = <<>> THEN ""
    ELSE IF Len(strs) = 1 THEN strs[1]
    ELSE strs[1] \o sep \o Join(Tail(strs), sep)

\* variant of PyStr: None formats as the empty string
PyStrNoneEmpty(x) ==
    CASE x.t = "none" -> ""
      [] x.t = "str"  -> x.v
      [] x.t = "int"  -> ToString(x.v)
      [] x.t = "bool" -> IF x.v THEN "True" ELSE "False"
      [] x.t = "list" -> "[" \o Join([i \in DOMAIN x.v |-> "'" \o x.v[i] \o "'"], ", ") \o "]"
      [] OTHER        -> "{...}"

\* str(x), as an f-string formats x
PyStr(x) ==
    CASE x.t = "none" -> "None"
      [] x.t = "str"  -> x.v
      [] x.t = "int"  -> ToString(x.v)
      [] x.t = "bool" -> IF x.v THEN "True" ELSE "False"
      [] x.t = "list" -> "[" \o Join([i \in DOMAIN x.v |-> "'" \o x.v[i] \o "'"], ", ") \o "]"
      [] OTHER        -> "{...}"

(***************************************************************************)
(* Results of calls, exceptions and the logger.                            *)
(***************************************************************************)
Info(msg) == [lvl |-> "INFO", msg |-> msg]
Error(msg) == [lvl |-> "ERROR", msg |-> msg]
Errors(lines) == {i \in DOMAIN lines : lines[i].lvl = "ERROR"}

Ok(v) == [exc |-> "none", val |-> v]
Raise(e) == [exc |-> e, val |-> None]

\* The exception classes the model raises; each derives from Exception.
ExceptionClasses ==
    {"FileNotFoundError", "PermissionError", "YAMLError", "AttributeError",
     "JSONDecodeError", "UnexpectedExit"}

\* variant of Catches: `except OSError`
OSErrorsOnly(e) == e \in {"FileNotFoundError", "PermissionError"}

\* `except Exception as e`: whether the handler catches exception class e
Catches(e) == e \in ExceptionClasses

\* obj.get(key, default)
DictGet(obj, key, default) ==
    IF obj.t = "dict"
    THEN Ok(IF HasKey(obj.v, key) THEN ValueOf(obj.v, key) ELSE default)
    ELSE Raise("AttributeError")

\* obj.values()
DictValues(obj) ==
    IF obj.t = "dict"
    THEN Ok([i \in DOMAIN obj.v |-> obj.v[i][2]])
    ELSE Raise("AttributeError")

\* d[k] = v on the pair sequence m: an existing key keeps its position
SetItem(m, k, v) ==
    IF HasKey(m, k)
    THEN [i \in DOMAIN m |-> IF m[i][1] = k THEN <<k, v>> ELSE m[i]]
    ELSE Append(m, <<k, v>>)

\* the dict that results from d[k] = v for each pair <<k, v>> of pairs in
\* turn, from the empty dict: a key stands where it was first set and holds
\* the value it was last set to
FirstSetLastValue(pairs) ==
    LET first == {i \in DOMAIN pairs : \A j \in 1..(i - 1) : pairs[j][1] # pairs[i][1]}
        last(k) == CHOOSE i \in DOMAIN pairs :
                      pairs[i][1] = k /\ \A j \in (i + 1)..Len(pairs) : pairs[j][1] # k
        nth(r) == CHOOSE i \in first : Cardinality({j \in first : j <= i}) = r
    IN [r \in 1..Cardinality(first) |-> <<pairs[nth(r)][1], pairs[last(pairs[nth(r)][1])][2]>>]

DictOf(pairs) == With(pairs, FirstSetLastValue)

\* for k, v in other: m[k] = v
UpdateLoop(m, other) == DictOf(m \o other)

(***************************************************************************)
(* Files.  A file is absent or a text; a text has a layout and a JSON      *)
(* syntax tree: "invalid" (no JSON document: empty or cut short), an       *)
(* object with its members as written (a key may occur twice) or another   *)
(* JSON value.                                                             *)
(***************************************************************************)
Absent == [kind |-> "absent"]
Text(layout, json) == [kind |-> "text", layout |-> layout, json |-> json]
Invalid == [t |-> "invalid"]
Object(members) == [t |-> "object", v |-> members]

\* variant of JsonLoad: a text that is no JSON loads as the empty dict
JsonLoadLenient(file) ==
    CASE file.json.t = "invalid" -> Ok(Dict(<<>>))
      [] file.json.t = "object"  -> Ok(Dict(UpdateLoop(<<>>, file.json.v)))
      [] OTHER                   -> Ok(file.json)

\* json.load(f): an object becomes a dict, a repeated key keeps its first
\* position and its last value; a text that is no JSON raises
JsonLoad(file) ==
    CASE file.json.t = "invalid" -> Raise("JSONDecodeError")
      [] file.json.t = "object"  -> Ok(Dict(UpdateLoop(<<>>, file.json.v)))
      [] OTHER                   -> Ok(file.json)

\* json.dump(value, f, indent=4) into a file opened with "w"
JsonDump(value) ==
    Text("indent4", IF value.t = "dict" THEN Object(value.v) ELSE value)

\* open(path, "w") before anything is written: the file exists and is empty
Truncated == Text("empty", Invalid)

\* variant of DictUpdate: a key of obj keeps its value
DictUpdateKeepExisting(obj, other) ==
    IF obj.t = "dict"
    THEN Ok(Dict(UpdateLoop(other.v, obj.v)))
    ELSE Raise("AttributeError")

\* variant of DictUpdate: the keys of obj are dropped
DictUpdateDropExisting(obj, other) ==
    IF obj.t = "dict" THEN Ok(other) ELSE Raise("AttributeError")

ConcatLists(m, other) ==
    LET merged(k, v) ==
            IF HasKey(m, k) /\ ValueOf(m, k).t = "list" /\ v.t = "list"
            THEN List(ValueOf(m, k).v \o v.v)
            ELSE v
    IN DictOf(m \o [i \in DOMAIN other |-> <<other[i][1], merged(other[i][1], other[i][2])>>])

\* variant of DictUpdate: a list is appended to the list obj holds
DictUpdateConcatLists(obj, other) ==
    IF obj.t = "dict"
    THEN Ok(Dict(ConcatLists(obj.v, other.v)))
    ELSE Raise("AttributeError")

\* variant of DictUpdate: an obj that is no dict counts as the empty dict
DictUpdateCoerce(obj, other) ==
    IF obj.t = "dict"
    THEN Ok(Dict(UpdateLoop(obj.v, other.v)))
    ELSE Ok(other)

\* obj.update(other)
DictUpdate(obj, other) ==
    IF obj.t = "dict"
    THEN Ok(Dict(UpdateLoop(obj.v, other.v)))
    ELSE Raise("AttributeError")

(***************************************************************************)
(* _load_config and _get_path_odoo.  A call's result is                    *)
(* [exc, val, logs, reads].                                                *)
(***************************************************************************)
Result(exc, val, logs, n) == [exc |-> exc, val |-> val, logs |-> logs, reads |-> n]

\* try: body / except Exception as e: logger.error(msg)
Try(body, msg) ==
    With(body, LAMBDA b :
        IF b.exc = "none" THEN b
        ELSE IF Catches(b.exc)
             THEN Result("none", b.val, Append(b.logs, Error(msg)), b.reads)
             ELSE b)

\* with open(PROJECT_ROOT / "config.yaml") as f: config = load(f, Loader=Loader)
OpenAndParse(cf) ==
    CASE cf.kind = "missing"    -> Raise("FileNotFoundError")
      [] cf.kind = "unreadable" -> Raise("PermissionError")
      [] cf.kind = "malformed"  -> Raise("YAMLError")
      [] OTHER                  -> Ok(cf.doc)

\* how often the call opens config.yaml
Opens(cf) == IF cf.kind \in {"missing", "unreadable"} THEN 0 ELSE 1

LoadConfig(cf) ==
    LET r == OpenAndParse(cf)
    IN Try(Result(r.exc, r.val, <<Info("Loading configuration from config.yaml")>>, Opens(cf)),
           "Failed to load configuration")

\* variant of GetPathOdoo: the configuration is loaded twice
GetPathOdooTwoLoads(cf) ==
    With(LoadConfig(cf), LAMBDA c :
        LET r == IF c.exc = "none" THEN DictGet(c.val, "repos", None) ELSE Raise(c.exc)
            o == IF r.exc = "none" THEN DictGet(r.val, "odoo", None) ELSE r
        IN Try(Result(o.exc, o.val,
                      IF o.exc = "none"
                      THEN c.logs \o c.logs \o <<Info("Odoo path obtained: " \o PyStr(o.val))>>
                      ELSE c.logs \o c.logs,
                      c.reads + c.reads),
               "Failed to get Odoo path"))

GetPathOdoo(cf) ==
    With(LoadConfig(cf), LAMBDA c :
        LET r == IF c.exc = "none" THEN DictGet(c.val, "repos", None) ELSE Raise(c.exc)
            o == IF r.exc = "none" THEN DictGet(r.val, "odoo", None) ELSE r
        IN Try(Result(o.exc, o.val,
                      IF o.exc = "none"
                      THEN Append(c.logs, Info("Odoo path obtained: " \o PyStr(o.val)))
                      ELSE c.logs,
                      c.reads),
               "Failed to get Odoo path"))

(***************************************************************************)
(* The path list of pyright and settings.                                  *)
(***************************************************************************)
\* variant of ListExtend: an item already in l is skipped
ListExtendUnique(l, items) ==
    l \o SelectSeq(items, LAMBDA x : x \notin Range(l))

\* l.extend(items)
ListExtend(l, items) == l \o items

\* for repo in values: extend with a list, append a str, skip anything else
RECURSIVE AggregateLoop(_, _)
AggregateLoop(repos, values) ==
    IF values = <<>> THEN repos
    ELSE LET repo == Head(values)
             r1 == IF repo.t = "list" THEN ListExtend(repos, repo.v) ELSE repos
             r2 == IF repo.t = "str" THEN Append(r1, repo.v) ELSE r1
         IN AggregateLoop(r2, Tail(values))

\* config = _load_config(); repos = []; the loop; repos.append(f"{_get_path_odoo()}/addons")
BuildRepos(cf) ==
    With(LoadConfig(cf), LAMBDA c :
        LET r == IF c.exc = "none" THEN DictGet(c.val, "repos", None) ELSE Raise(c.exc)
            vs == IF r.exc = "none" THEN DictValues(r.val) ELSE r
        IN IF vs.exc # "none"
           THEN Result(vs.exc, <<>>, c.logs, c.reads)
           ELSE With(GetPathOdoo(cf), LAMBDA o :
                    Result(o.exc,
                           Append(AggregateLoop(<<>>, vs.val), PyStr(o.val) \o "/addons"),
                           c.logs \o o.logs,
                           c.reads + o.reads)))

(***************************************************************************)
(* pyright and settings.  The value of a task body's result is the text of *)
(* its output file after the body.                                         *)
(***************************************************************************)
PyrightBody(cf, file) ==
    With(BuildRepos(cf), LAMBDA b :
        LET start == <<Info("Creating pyrightconfig.json")>>
        IN IF b.exc # "none"
           THEN Result(b.exc, file, start \o b.logs, b.reads)
           ELSE Result("none",
                       JsonDump(Dict(<< <<"extraPaths", List(b.val)>> >>)),
                       start \o b.logs \o <<Info("pyrightconfig.json created successfully")>>,
                       b.reads))

PyrightRun(cf, file) == Try(PyrightBody(cf, file), "Failed to create pyrightconfig.json")

Formatter(name) == Dict(<< <<"editor.defaultFormatter", Str(name)>> >>)

\* the settings dict of lines 79-99; odooA and odooB are the two later
\* interpolations of _get_path_odoo()
Generated(repos, odooA, odooB) ==
    Dict(<< <<"python.autoComplete.extraPaths", List(repos)>>,
            <<"python.formatting.provider", Str("none")>>,
            <<"python.linting.flake8Enabled", Bool(TRUE)>>,
            <<"python.linting.ignorePatterns", List(<<odooA \o "/**/*.py">>)>>,
            <<"python.linting.pylintArgs",
              List(<<"--init-hook=\"import sys;sys.path.append('" \o odooB \o "')\"",
                     "--load-plugins=pylint_odoo">>)>>,
            <<"python.linting.pylintEnabled", Bool(TRUE)>>,
            <<"python.defaultInterpreterPath", Str("python3")>>,
            <<"restructuredtext.confPath", Str("")>>,
            <<"search.followSymlinks", Bool(FALSE)>>,
            <<"search.useIgnoreFiles", Bool(FALSE)>>,
            <<"[python]", Formatter("ms-python.black-formatter")>>,
            <<"[json]", Formatter("esbenp.prettier-vscode")>>,
            <<"[jsonc]", Formatter("esbenp.prettier-vscode")>>,
            <<"[markdown]", Formatter("esbenp.prettier-vscode")>>,
            <<"[yaml]", Formatter("esbenp.prettier-vscode")>>,
            <<"[xml]", Dict(<< <<"editor.formatOnSave", Bool(FALSE)>> >>)>> >>)

\* lines 70-99: the path list and the settings dict
BuildSettings(cf) ==
    With(BuildRepos(cf), LAMBDA b :
        IF b.exc # "none"
        THEN Result(b.exc, None, b.logs, b.reads)
        ELSE With(GetPathOdoo(cf), LAMBDA oA :
             With(GetPathOdoo(cf), LAMBDA oB :
                 Result(IF oA.exc # "none" THEN oA.exc ELSE oB.exc,
                        Generated(b.val, PyStr(oA.val), PyStr(oB.val)),
                        b.logs \o oA.logs \o oB.logs,
                        b.reads + oA.reads + oB.reads))))

\* lines 101-106: current_settings, from the file when it exists
MergeSettings(file, gen) ==
    IF file.kind = "text"
    THEN With(JsonLoad(file), LAMBDA p :
             IF p.exc = "none" THEN DictUpdate(p.val, gen) ELSE p)
    ELSE Ok(gen)

SettingsBody(cf, file) ==
    With(BuildSettings(cf), LAMBDA g :
        LET start == <<Info("Creating or updating settings.json in .vscode directory")>>
        IN IF g.exc # "none" THEN Result(g.exc, file, start \o g.logs, g.reads)
           ELSE With(MergeSettings(file, g.val), LAMBDA m :
                IF m.exc # "none" THEN Result(m.exc, file, start \o g.logs, g.reads)
                ELSE Result("none", JsonDump(m.val),
                            start \o g.logs
                              \o <<Info("settings.json created or updated successfully")>>,
                            g.reads)))

SettingsRun(cf, file) == Try(SettingsBody(cf, file), "Failed to create or update settings.json")

(***************************************************************************)
(* The bootstrap tasks.  The outcome of an external command is an input.   *)
(***************************************************************************)
\* c.run(cmd): raises UnexpectedExit when the command fails
RunCommand(ok) == IF ok THEN Ok(None) ELSE Raise("UnexpectedExit")

CheckOdooRun(cf, ok) ==
    With(GetPathOdoo(cf), LAMBDA o :
        LET start == <<Info("Installing Odoo dependencies")>>
            r == IF o.exc = "none" THEN RunCommand(ok) ELSE Raise(o.exc)
        IN Try(Result(r.exc, None,
                      IF r.exc = "none"
                      THEN start \o o.logs \o <<Info("Odoo dependencies installed successfully")>>
                      ELSE start \o o.logs,
                      o.reads),
               "Failed to install Odoo dependencies"))

\* uv --version runs with warn=True: a failure is a result that is not ok
CheckUvRun(versionOk, windows, installOk) ==
    LET start == <<Info("Checking uv installation")>>
        r == IF versionOk THEN Ok(None) ELSE RunCommand(installOk)
    IN Try(Result(r.exc, None,
                  IF versionOk THEN Append(start, Info("uv is already installed"))
                  ELSE IF windows THEN Append(start, Info("Installing uv on Windows"))
                  ELSE Append(start, Info("Installing uv on Unix")),
                  0),
           "Failed to check/install uv")

DepsRun(ok) ==
    LET start == <<Info("Installing additional dependencies")>>
        r == RunCommand(ok)
    IN Try(Result(r.exc, None,
                  IF ok THEN Append(start, Info("Additional dependencies installed successfully"))
                  ELSE start,
                  0),
           "Failed to install additional dependencies")

CheckRun(cf, venvExists, ok) ==
    With(LoadConfig(cf), LAMBDA c :
        LET v == IF c.exc = "none" THEN DictGet(c.val, "python", Str("3.10")) ELSE Raise(c.exc)
            checking ==
                Append(c.logs, Info("Checking virtual environment with Python " \o PyStr(v.val)))
            r == IF v.exc # "none" THEN v
                 ELSE IF venvExists THEN Ok(None) ELSE RunCommand(ok)
        IN Try(Result(r.exc, None,
                      IF v.exc # "none" THEN c.logs
                      ELSE IF venvExists THEN checking
                      ELSE Append(checking, Info("Creating virtual environment")),
                      c.reads),
               "Failed to check/create virtual environment"))

InstallRun == Result("none", None, <<Info("Finished installing development environment")>>, 0)

(***************************************************************************)
(* The invoke executor: a task's pre-tasks run before it, each task once.  *)
(***************************************************************************)
Tasks == {"pyright", "settings", "check_odoo", "check_uv", "deps", "check", "install"}

\* variant of InstallPre: check_odoo before deps
InstallPreShuffled == <<"check", "check_odoo", "deps", "pyright">>

InstallPre == <<"check", "deps", "check_odoo", "pyright">>

Pre(t) ==
    CASE t = "check"   -> <<"check_uv">>
      [] t = "install" -> InstallPre
      [] OTHER         -> <<>>

RECURSIVE ExpandAll(_)
Expand(t) == ExpandAll(Pre(t)) \o <<t>>
ExpandAll(ts) == IF ts = <<>> THEN <<>> ELSE Expand(Head(ts)) \o ExpandAll(Tail(ts))

RECURSIVE Dedupe(_, _)
Dedupe(done, calls) ==
    IF calls = <<>> THEN done
    ELSE Dedupe(IF Head(calls) \in Range(done) THEN done ELSE Append(done, Head(calls)),
                Tail(calls))

Calls(t) == Dedupe(<<>>, Expand(t))

(***************************************************************************)
(* The inputs: the config.yaml, settings.json and pyrightconfig.json the   *)
(* tasks may find.                                                         *)
(***************************************************************************)
RepoNames == {"odoo", "a", "b"}
RepoValues == {Str("/o"), Str("/x"), List(<<"/x", "/y">>)}

DistinctKeys(m) == \A i, j \in DOMAIN m : m[i][1] = m[j][1] => i = j

ReposMappings ==
    UNION {{e \in [1..n -> RepoNames \X RepoValues] : DistinctKeys(e)} : n \in 0..MaxRepos}

ConfigDocs ==
    {None, Str("repos"), Dict(<<>>),
     Dict(<< <<"python", Str("3.11")>> >>),
     Dict(<< <<"repos", None>> >>),
     Dict(<< <<"repos", List(<<"/x">>)>> >>),
     Dict(<< <<"python", Str("3.11")>>, <<"repos", Dict(<< <<"odoo", Str("/o")>> >>)>> >>),
     Dict(<< <<"repos", Dict(<< <<"odoo", Str("/o")>>, <<"port", Num(8069)>> >>)>> >>)}
    \cup {Dict(<< <<"repos", Dict(e)>> >>) : e \in ReposMappings}

ConfigFiles ==
    {[kind |-> "missing"], [kind |-> "unreadable"], [kind |-> "malformed"]}
    \cup {[kind |-> "yaml", doc |-> d] : d \in ConfigDocs}

MemberPool ==
    {<<"editor.fontSize", Num(14)>>, <<"editor.fontSize", Num(12)>>,
     <<"[python]", Dict(<< <<"editor.tabSize", Num(4)>> >>)>>}

MemberSeqs == UNION {[1..n -> MemberPool] : n \in 0..MaxMembers}

SettingsFiles ==
    {Absent, Text("other", Invalid), Text("other", List(<<"/x">>)), Text("other", Str("x"))}
    \cup {Text(l, Object(m)) : l \in {"indent4", "other"}, m \in MemberSeqs}

PyrightFiles ==
    {Absent, Text("other", Object(<< <<"extraPaths", List(<<"/old">>)>>, <<"venv", Str("venv")>> >>))}

\* the inputs every other input is combined with
CoreConfigFiles ==
    {[kind |-> "malformed"],
     [kind |-> "yaml", doc |-> Dict(<<>>)],
     [kind |-> "yaml", doc |-> Dict(<< <<"repos", Dict(<< <<"odoo", Str("/o")>> >>)>> >>)]}

CoreSettingsFiles ==
    {Absent, Text("other", Object(<< <<"editor.fontSize", Num(14)>> >>))}

Procs == {"p1", "p2"}

(***************************************************************************)
(* Sequential use: one invocation of invoke at a time.                     *)
(***************************************************************************)
Init ==
    /\ \/ /\ configFile \in ConfigFiles
          /\ settingsFile = Absent
          /\ pyrightFile = Absent
       \/ /\ configFile \in CoreConfigFiles
          /\ settingsFile \in SettingsFiles
          /\ pyrightFile = Absent
       \/ /\ configFile \in CoreConfigFiles
          /\ settingsFile \in CoreSettingsFiles
          /\ pyrightFile \in PyrightFiles
    /\ vscodeDir \in IF settingsFile = Absent /\ configFile \in CoreConfigFiles
                    THEN BOOLEAN ELSE {TRUE}
    /\ queue = <<>>
    /\ executed = <<>>
    /\ failures = 0
    /\ settingsRuns = 0
    /\ log = <<>>
    /\ reads = 0
    /\ crashed = FALSE
    /\ pc = [p \in Procs |-> "idle"]
    /\ settingsDict = [p \in Procs |-> None]
    /\ cur = [p \in Procs |-> None]
    /\ plog = [p \in Procs |-> <<>>]
    /\ clobbered = [p \in Procs |-> Absent]

\* `invoke t` on the command line
Invoke(t) ==
    /\ queue = <<>>
    /\ t = "settings" => settingsRuns < MaxSettingsRuns
    /\ queue' = Calls(t)
    /\ executed' = <<>>
    /\ failures' = 0
    /\ log' = <<>>
    /\ reads' = 0
    /\ crashed' = FALSE
    /\ UNCHANGED <<configFile, settingsFile, pyrightFile, vscodeDir, settingsRuns>>
    /\ UNCHANGED concVars

\* what the executor records when the body of task t ends with result r
Finish(t, r) ==
    /\ settingsRuns' = IF t = "settings" THEN settingsRuns + 1 ELSE settingsRuns
    /\ log' = r.logs
    /\ reads' = r.reads
    /\ executed' = Append(executed, t)
    /\ failures' = IF Errors(r.logs) # {} THEN failures + 1 ELSE failures
    /\ crashed' = (r.exc # "none")
    /\ queue' = IF r.exc = "none" THEN Tail(queue) ELSE <<>>
    /\ UNCHANGED configFile
    /\ UNCHANGED concVars

\* the executor runs the body of t next
Runs(t) == queue # <<>> /\ Head(queue) = t

Pyright ==
    /\ Runs("pyright")
    /\ \E r \in {PyrightRun(configFile, pyrightFile)} :
          /\ pyrightFile' = r.val
          /\ Finish("pyright", r)
    /\ UNCHANGED <<settingsFile, vscodeDir>>

Settings ==
    /\ Runs("settings")
    /\ \E r \in {SettingsRun(configFile, settingsFile)} :
          /\ settingsFile' = r.val
          /\ Finish("settings", r)
    /\ vscodeDir' = TRUE
    /\ UNCHANGED pyrightFile

CheckOdoo ==
    /\ Runs("check_odoo")
    /\ \E ok \in BOOLEAN :
          \E r \in {CheckOdooRun(configFile, ok)} : Finish("check_odoo", r)
    /\ UNCHANGED <<settingsFile, pyrightFile, vscodeDir>>

CheckUv ==
    /\ Runs("check_uv")
    /\ \E versionOk, windows, installOk \in BOOLEAN :
          \E r \in {CheckUvRun(versionOk, windows, installOk)} : Finish("check_uv", r)
    /\ UNCHANGED <<settingsFile, pyrightFile, vscodeDir>>

Deps ==
    /\ Runs("deps")
    /\ \E ok \in BOOLEAN : \E r \in {DepsRun(ok)} : Finish("deps", r)
    /\ UNCHANGED <<settingsFile, pyrightFile, vscodeDir>>

Check ==
    /\ Runs("check")
    /\ \E venvExists, ok \in BOOLEAN :
          \E r \in {CheckRun(configFile, venvExists, ok)} : Finish("check", r)
    /\ UNCHANGED <<settingsFile, pyrightFile, vscodeDir>>

Install ==
    /\ Runs("install")
    /\ Finish("install", InstallRun)
    /\ UNCHANGED <<settingsFile, pyrightFile, vscodeDir>>

Next ==
    \/ \E t \in Tasks : Invoke(t)
    \/ Pyright
    \/ Settings
    \/ CheckOdoo
    \/ CheckUv
    \/ Deps
    \/ Check
    \/ Install

Spec == Init /\ [][Next]_vars

(***************************************************************************)
(* Concurrent use: the runs of settings in Procs, started at the same time *)
(* in the same project directory, and another writer of settings.json.     *)
(* A step is one access to the file system.                                *)
(***************************************************************************)
InitConc ==
    /\ configFile \in CoreConfigFiles
    /\ settingsFile \in SettingsFiles
    /\ pyrightFile = Absent
    /\ vscodeDir \in IF settingsFile = Absent THEN BOOLEAN ELSE {TRUE}
    /\ queue = <<>>
    /\ executed = <<>>
    /\ failures = 0
    /\ settingsRuns = 0
    /\ log = <<>>
    /\ reads = 0
    /\ crashed = FALSE
    /\ pc = [p \in Procs |-> "start"]
    /\ settingsDict = [p \in Procs |-> None]
    /\ cur = [p \in Procs |-> None]
    /\ plog = [p \in Procs |-> <<>>]
    /\ clobbered = [p \in Procs |-> Absent]

\* the except clause of settings, in process p
Fail(p, lines) ==
    /\ plog' = [plog EXCEPT ![p] = @ \o lines \o <<Error("Failed to create or update settings.json")>>]
    /\ pc' = [pc EXCEPT ![p] = "done"]

\* lines 65-99: mkdir, the path list, the settings dict
Start(p) ==
    /\ pc[p] = "start"
    /\ vscodeDir' = TRUE
    /\ \E g \in {BuildSettings(configFile)} :
       LET lines == <<Info("Creating or updating settings.json in .vscode directory")>> \o g.logs
       IN IF g.exc # "none"
          THEN Fail(p, lines) /\ UNCHANGED settingsDict
          ELSE /\ settingsDict' = [settingsDict EXCEPT ![p] = g.val]
               /\ plog' = [plog EXCEPT ![p] = @ \o lines]
               /\ pc' = [pc EXCEPT ![p] = "exists"]
    /\ UNCHANGED <<configFile, settingsFile, pyrightFile, queue, executed, failures,
                   settingsRuns, log, reads, crashed, cur, clobbered>>

\* line 101 and, with no file, line 106
Exists(p) ==
    /\ pc[p] = "exists"
    /\ IF settingsFile.kind = "text"
       THEN pc' = [pc EXCEPT ![p] = "read"] /\ UNCHANGED cur
       ELSE pc' = [pc EXCEPT ![p] = "open"] /\ cur' = [cur EXCEPT ![p] = settingsDict[p]]
    /\ UNCHANGED <<configFile, settingsFile, seqVars, settingsDict, plog, clobbered>>

\* lines 102-104: open for reading, json.load, update
ReadAndMerge(file, g) ==
    IF file.kind = "absent" THEN Raise("FileNotFoundError")
    ELSE With(JsonLoad(file), LAMBDA parsed :
             IF parsed.exc = "none" THEN DictUpdate(parsed.val, g) ELSE parsed)

Read(p) ==
    /\ pc[p] = "read"
    /\ \E m \in {ReadAndMerge(settingsFile, settingsDict[p])} :
          IF m.exc # "none"
          THEN Fail(p, <<>>) /\ UNCHANGED cur
          ELSE /\ cur' = [cur EXCEPT ![p] = m.val]
               /\ pc' = [pc EXCEPT ![p] = "open"]
               /\ UNCHANGED plog
    /\ UNCHANGED <<configFile, settingsFile, seqVars, settingsDict, clobbered>>

\* line 108: open(settings_path, "w") truncates the file
OpenForWriting(p) ==
    /\ pc[p] = "open"
    /\ clobbered' = [clobbered EXCEPT ![p] = settingsFile]
    /\ settingsFile' = Truncated
    /\ pc' = [pc EXCEPT ![p] = "dump"]
    /\ UNCHANGED <<configFile, seqVars, settingsDict, cur, plog>>

Garbled == Text("indent4", Invalid)

\* the texts the file can hold once the buffered text of value is written
\* from offset 0 and the file closed: the text of value, or, when another
\* writer has written since the file was truncated, that text followed by
\* what is left of the other's
Written(file, value) ==
    IF file = Truncated THEN {JsonDump(value)} ELSE {JsonDump(value), Garbled}

\* lines 109-111: json.dump, close, the closing log line
Dump(p) ==
    /\ pc[p] = "dump"
    /\ settingsFile' \in Written(settingsFile, cur[p])
    /\ plog' = [plog EXCEPT ![p] = Append(@, Info("settings.json created or updated successfully"))]
    /\ pc' = [pc EXCEPT ![p] = "done"]
    /\ UNCHANGED <<configFile, seqVars, settingsDict, cur, clobbered>>

\* what another writer may set at the top level of settings.json
Edits == {<<"editor.fontSize", Num(12)>>, <<"files.autoSave", Str("off")>>}

\* another writer rewrites settings.json with one top-level key set
Edit ==
    /\ settingsFile.kind = "text"
    /\ settingsFile.json.t = "object"
    /\ \E e \in Edits :
          /\ settingsFile' = Text("other", Object(SetItem(JsonLoad(settingsFile).val.v, e[1], e[2])))
          /\ settingsFile' # settingsFile
    /\ UNCHANGED <<configFile, seqVars, concVars>>

NextConc ==
    \/ \E p \in Procs : Start(p)
    \/ \E p \in Procs : Exists(p)
    \/ \E p \in Procs : Read(p)
    \/ \E p \in Procs : OpenForWriting(p)
    \/ \E p \in Procs : Dump(p)
    \/ Edit

SpecConc == InitConc /\ [][NextConc]_vars

(***************************************************************************)
(* Vocabulary of the properties.                                           *)
(***************************************************************************)
\* the body of task t was the last to run
Done(t) == executed # <<>> /\ executed[Len(executed)] = t
Failed == Errors(log) # {}
NoErrors == Errors(log) = {}
Succeeded(msg) == log # <<>> /\ log[Len(log)] = Info(msg)
SettingsSucceeded == Succeeded("settings.json created or updated successfully")
PyrightSucceeded == Succeeded("pyrightconfig.json created successfully")

IsMapping(file) == file.kind = "text" /\ file.json.t = "object"
\* the pairs of the mapping a file parses to
Mapping(file) == JsonLoad(file).val.v
SameMapping(m, n) ==
    /\ Keys(m) = Keys(n)
    /\ \A k \in Keys(m) : ValueOf(m, k) = ValueOf(n, k)

GeneratedKeys ==
    {"python.autoComplete.extraPaths", "python.formatting.provider",
     "python.linting.flake8Enabled", "python.linting.ignorePatterns",
     "python.linting.pylintArgs", "python.linting.pylintEnabled",
     "python.defaultInterpreterPath", "restructuredtext.confPath",
     "search.followSymlinks", "search.useIgnoreFiles", "[python]", "[json]",
     "[jsonc]", "[markdown]", "[yaml]", "[xml]"}

LoadFails(cf) == cf.kind \in {"missing", "unreadable", "malformed"}
IsConfigMapping(cf) == cf.kind = "yaml" /\ cf.doc.t = "dict"
ReposAbsent(cf) == IsConfigMapping(cf) /\ ~HasKey(cf.doc.v, "repos")
HasRepos(cf) ==
    /\ IsConfigMapping(cf)
    /\ HasKey(cf.doc.v, "repos")
    /\ ValueOf(cf.doc.v, "repos").t = "dict"
\* the pairs of the repos mapping
ReposOf(cf) == ValueOf(cf.doc.v, "repos").v
ReposEmpty(cf) == HasRepos(cf) /\ ReposOf(cf) = <<>>
ValidRepos(cf) ==
    /\ HasRepos(cf)
    /\ \A i \in DOMAIN ReposOf(cf) : ReposOf(cf)[i][2].t \in {"str", "list"}
OdooOf(cf) == IF HasKey(ReposOf(cf), "odoo") THEN ValueOf(ReposOf(cf), "odoo") ELSE None

\* the values of a mapping in order, a list replaced by its elements
RECURSIVE Flattened(_)
Flattened(m) ==
    IF m = <<>> THEN <<>>
    ELSE (IF m[1][2].t = "list" THEN m[1][2].v ELSE <<m[1][2].v>>) \o Flattened(Tail(m))

ExpectedPaths(cf) == Flattened(ReposOf(cf)) \o <<PyStr(OdooOf(cf)) \o "/addons">>

\* the settings the task generates from a configuration
GeneratedFor(cf) == BuildSettings(cf).val.v

\* paths is the path list the configuration asks for
PathsAre(paths, cf) ==
    /\ paths = ExpectedPaths(cf)
    /\ (\A i \in DOMAIN ReposOf(cf) : ReposOf(cf)[i][2].t = "str")
          => Len(paths) = Len(ReposOf(cf)) + 1

\* the running (or last) invocation is one of install
InstallInvoked == "install" \in Range(queue) \/ "install" \in Range(executed)

\* the early failures of settings and pyright
ConfigUnusable(cf) == LoadFails(cf) \/ ReposAbsent(cf)
SettingsUnusable(file) == file.kind = "text" /\ file.json.t # "object"

\* pyright and settings step to the degenerate path list without an error
DegenerateWritten ==
    /\ Runs("pyright")
         => /\ NoErrors'
            /\ IsMapping(pyrightFile')
            /\ Mapping(pyrightFile') = << <<"extraPaths", List(<<"None/addons">>)>> >>
    /\ (Runs("settings") /\ (settingsFile = Absent \/ IsMapping(settingsFile)))
         => /\ NoErrors'
            /\ IsMapping(settingsFile')
            /\ ValueOf(Mapping(settingsFile'), "python.autoComplete.extraPaths")
                 = List(<<"None/addons">>)

\* the value under key k of the mapping text file holds, None without one
Entry(file, k) ==
    IF IsMapping(file) /\ HasKey(Mapping(file), k) THEN ValueOf(Mapping(file), k) ELSE None

\* the keys, not generated, that changed between the read of p and its write
ChangedSinceRead(p) ==
    IF IsMapping(clobbered[p])
    THEN {k \in Keys(Mapping(clobbered[p])) \ GeneratedKeys :
             Entry(clobbered[p], k) # Entry(JsonDump(cur[p]), k)}
    ELSE {}

(***************************************************************************)
(* C1  Merge preservation: after a successful run of settings on a         *)
(* settings.json that parses as a mapping, every top-level key of the old  *)
(* mapping that is not a generated key is in the written file with the     *)
(* value it had.                                                           *)
(***************************************************************************)
MergePreservation ==
    [][(Runs("settings") /\ IsMapping(settingsFile) /\ SettingsSucceeded')
        => \A k \in Keys(Mapping(settingsFile)) \ GeneratedKeys :
              /\ IsMapping(settingsFile')
              /\ HasKey(Mapping(settingsFile'), k)
              /\ ValueOf(Mapping(settingsFile'), k) = ValueOf(Mapping(settingsFile), k)]_vars

MergePreservationWitness ==
    /\ Done("settings") /\ SettingsSucceeded
    /\ IsMapping(settingsFile)
    /\ HasKey(Mapping(settingsFile), "editor.fontSize")
    /\ ValueOf(Mapping(settingsFile), "editor.fontSize") = Num(12)

(***************************************************************************)
(* C2  Path aggregation: with every value of repos a string or a list of   *)
(* strings, the list pyright writes as extraPaths and settings writes as   *)
(* python.autoComplete.extraPaths is the values of repos in mapping order, *)
(* lists flattened in place, nothing dropped or reordered, followed by the *)
(* one element str(repos.get("odoo")) + "/addons"; with string values only *)
(* its length is len(repos) + 1.                                           *)
(***************************************************************************)
PathAggregation ==
    [][/\ (Runs("pyright") /\ ValidRepos(configFile))
            => /\ PyrightSucceeded'
               /\ IsMapping(pyrightFile')
               /\ Keys(Mapping(pyrightFile')) = {"extraPaths"}
               /\ PathsAre(ValueOf(Mapping(pyrightFile'), "extraPaths").v, configFile)
       /\ (Runs("settings") /\ ValidRepos(configFile) /\ SettingsSucceeded')
            => PathsAre(ValueOf(Mapping(settingsFile'), "python.autoComplete.extraPaths").v,
                        configFile)]_vars

PathAggregationWitness ==
    /\ Done("pyright") /\ PyrightSucceeded
    /\ ReposOf(configFile) = << <<"odoo", Str("/x")>>, <<"a", List(<<"/x", "/y">>)>> >>
    /\ ValueOf(Mapping(pyrightFile), "extraPaths") = List(<<"/x", "/x", "/y", "/x/addons">>)

(***************************************************************************)
(* C3  Shallow overlay: after a successful run of settings the written     *)
(* file is the old mapping overlaid at the top level with the generated    *)
(* settings: a generated key holds the generated value (an old nested      *)
(* mapping under it is replaced whole), any other key is an old key, and   *)
(* with no settings.json before the file is exactly the generated mapping. *)
(***************************************************************************)
ShallowOverlay ==
    [][(Runs("settings") /\ SettingsSucceeded')
        => LET new == Mapping(settingsFile')
               gen == GeneratedFor(configFile)
           IN /\ IsMapping(settingsFile')
              /\ Keys(gen) = GeneratedKeys
              /\ \A k \in GeneratedKeys : HasKey(new, k) /\ ValueOf(new, k) = ValueOf(gen, k)
              /\ ValueOf(new, "[python]")
                   = Dict(<< <<"editor.defaultFormatter", Str("ms-python.black-formatter")>> >>)
              /\ \A k \in Keys(new) \ GeneratedKeys :
                    IsMapping(settingsFile) /\ HasKey(Mapping(settingsFile), k)
              /\ settingsFile = Absent => new = gen]_vars

\* "[python]" comes first in the written file: it was in the old file
ShallowOverlayWitness ==
    /\ Done("settings") /\ SettingsSucceeded
    /\ Mapping(settingsFile)[1]
         = <<"[python]", Dict(<< <<"editor.defaultFormatter", Str("ms-python.black-formatter")>> >>)>>
    /\ HasKey(Mapping(settingsFile), "editor.fontSize")

(***************************************************************************)
(* C4  Merge idempotence: settings run on a settings.json that equals the  *)
(* generated mapping leaves a file equal to it as a mapping, and a second  *)
(* run of settings, the configuration unchanged, leaves the file the first *)
(* run left.                                                               *)
(***************************************************************************)
MergeIdempotence ==
    [][/\ (/\ Runs("settings")
           /\ IsMapping(settingsFile)
           /\ BuildSettings(configFile).exc = "none"
           /\ SameMapping(Mapping(settingsFile), GeneratedFor(configFile)))
            => /\ SettingsSucceeded'
               /\ IsMapping(settingsFile')
               /\ SameMapping(Mapping(settingsFile'), GeneratedFor(configFile))
       /\ (Runs("settings") /\ settingsRuns >= 1) => settingsFile' = settingsFile]_vars

MergeIdempotenceWitness ==
    /\ Done("settings") /\ SettingsSucceeded
    /\ settingsRuns = 2
    /\ HasKey(Mapping(settingsFile), "editor.fontSize")
    /\ ValueOf(Mapping(settingsFile), "python.autoComplete.extraPaths") = List(<<"/o", "/o/addons">>)

(***************************************************************************)
(* C5  With config.yaml missing, unreadable or malformed, _load_config     *)
(* logs an error and returns None without raising, and _get_path_odoo,     *)
(* pyright and settings end without an exception reaching the caller and   *)
(* log at least one error.                                                 *)
(***************************************************************************)
ConfigFailureContained ==
    [][LoadFails(configFile)
        => /\ LoadConfig(configFile).exc = "none"
           /\ LoadConfig(configFile).val = None
           /\ Errors(LoadConfig(configFile).logs) # {}
           /\ GetPathOdoo(configFile).exc = "none"
           /\ Errors(GetPathOdoo(configFile).logs) # {}
           /\ (Runs("pyright") \/ Runs("settings"))
                => (queue' = Tail(queue) /\ ~crashed' /\ Errors(log') # {})]_vars

ConfigFailureContainedWitness ==
    /\ configFile.kind = "malformed"
    /\ Done("settings") /\ Failed /\ ~crashed
    /\ log[Len(log)] = Error("Failed to create or update settings.json")

InstallOrder ==
    InstallInvoked
        => /\ executed \o queue
                = <<"check_uv", "check", "deps", "check_odoo", "pyright", "install">>
           /\ ~crashed
           /\ Done("install")
                => log = <<Info("Finished installing development environment")>>

InstallOrderWitness ==
    /\ Done("install") /\ queue = <<>>
    /\ log = <<Info("Finished installing development environment")>>
    /\ failures = 5

(***************************************************************************)
(* C8  As claimed: with repos absent from the configuration or an empty    *)
(* mapping, pyright and settings write the one-element list                *)
(* <<"None/addons">> and report no failure.                                *)
(***************************************************************************)
DegenerateReposAbsentOrEmpty ==
    [][(ReposAbsent(configFile) \/ ReposEmpty(configFile)) => DegenerateWritten]_vars

(***************************************************************************)
(* C8, amended: with repos an empty mapping, pyright and settings write    *)
(* the one-element list <<"None/addons">> and report no failure; with the  *)
(* key repos absent from the configuration both log an error and leave     *)
(* their output file as it was.                                            *)
(***************************************************************************)
DegenerateReposEmpty ==
    [][/\ ReposEmpty(configFile) => DegenerateWritten
       /\ ReposAbsent(configFile)
            => /\ Runs("pyright") => (Errors(log') # {} /\ pyrightFile' = pyrightFile)
               /\ Runs("settings") => (Errors(log') # {} /\ settingsFile' = settingsFile)]_vars

DegenerateReposEmptyWitness ==
    /\ ReposEmpty(configFile)
    /\ Done("pyright") /\ PyrightSucceeded /\ NoErrors
    /\ Mapping(pyrightFile) = << <<"extraPaths", List(<<"None/addons">>)>> >>
    /\ log[Len(log) - 1] = Info("Odoo path obtained: None")

(***************************************************************************)
(* C10  State unchanged on early failure: when settings fails before it    *)
(* opens settings.json for writing (the configuration does not load, repos *)
(* is absent, the existing settings.json is no JSON or is JSON but no      *)
(* mapping), the failure is caught and logged and settings.json is what it *)
(* was; pyright failing before its write leaves pyrightconfig.json what it *)
(* was.                                                                    *)
(***************************************************************************)
UnchangedOnEarlyFailure ==
    [][/\ (Runs("settings") /\ (ConfigUnusable(configFile) \/ SettingsUnusable(settingsFile)))
            => /\ settingsFile' = settingsFile
               /\ Errors(log') # {}
               /\ log'[Len(log')] = Error("Failed to create or update settings.json")
               /\ ~crashed'
       /\ (Runs("pyright") /\ ConfigUnusable(configFile))
            => /\ pyrightFile' = pyrightFile
               /\ log'[Len(log')] = Error("Failed to create pyrightconfig.json")
               /\ ~crashed']_vars

UnchangedOnEarlyFailureWitness ==
    /\ Done("settings") /\ Failed
    /\ ~LoadFails(configFile) /\ ValidRepos(configFile)
    /\ settingsFile = Text("other", Invalid)

(***************************************************************************)
(* C9  The read-modify-write of settings.json is not atomic.  A change of  *)
(* a top-level key that is not generated, made by another writer after a   *)
(* run of settings has read the file and before it writes, is absent from  *)
(* the file that run leaves (lost update); and a run that reads the file   *)
(* after another run has opened it for writing and before the other's text *)
(* is complete fails with a logged error and writes nothing.               *)
(***************************************************************************)
LostUpdate ==
    [][\A p \in Procs :
        /\ (pc[p] = "dump" /\ pc'[p] = "done")
             => \A k \in ChangedSinceRead(p) : Entry(settingsFile', k) # Entry(clobbered[p], k)
        /\ (pc[p] = "read" /\ pc'[p] # "read" /\ settingsFile = Truncated
              /\ \E q \in Procs \ {p} : pc[q] = "dump")
             => /\ pc'[p] = "done"
                /\ plog'[p][Len(plog'[p])] = Error("Failed to create or update settings.json")
                /\ settingsFile' = settingsFile]_vars

LostUpdateWitness ==
    /\ pc["p1"] = "done" /\ pc["p2"] = "done"
    /\ plog["p1"][Len(plog["p1"])] = Info("settings.json created or updated successfully")
    /\ Entry(clobbered["p1"], "files.autoSave") = Str("off")
    /\ IsMapping(settingsFile)
    /\ ~HasKey(Mapping(settingsFile), "files.autoSave")
    /\ plog["p2"][Len(plog["p2"])] = Error("Failed to create or update settings.json")
    /\ settingsDict["p2"] # None
====
